---- MODULE Spec2Model ----
(***************************************************************************)
(* n-moku: an N-in-a-row board game (class Game), its tabular Q-learning   *)
(* opponent (class QLearningAgent) and the callers of both.                *)
(*                                                                         *)
(* Python's None is the string "None"; a board is a sequence of            *)
(* board_size*board_size cells, cell idx of the code being board[idx+1].   *)
(***************************************************************************)
EXTENDS Integers, Sequences, FiniteSets, TLC

\* ---------------------------------------------------------------- bounds
\* Largest board_size of a Game driven through play / reset / check_game_over.
GameMaxSize == 2

\* Largest board_size of the boards winner and is_draw are evaluated on.
EvalMaxSize == 3

\* Largest board_size train_self_play is run on.
TrainMaxSize == 2

\* Largest `episodes` argument of train_self_play.
MaxEpisodes == 2

\* Largest BOARD_SIZE the interactive loop is run with (the code's is 9).
UIMaxSize == 3

\* Module constant TRAINING_EPISODES.
TRAINING_EPISODES == 100000

\* Largest board_size of the boards the move choosers are called on.
AgentMaxSize == 2

None == "None"
Marks == {"o", "x"}

\* board_size .. game_over: the fields of the Game object in use (the game of
\*     the current episode while train_self_play runs)
\* call: the last call made and what it returned
\* q: QLearningAgent.q, a function from <<state, action>> keys to values
\* episodes, episode, current_mark, last_sa: the argument, the loop counter
\*     and the locals of train_self_play
\* pc: where the program stands (in train_self_play, in the UI)
\* cpu_algorithm: UI.cpu_algorithm
\* files: the saved tables, a function from file names to tables
VARIABLES board_size, win_length, human_first, board, turn, game_over, call,
          q, episodes, episode, pc, current_mark, last_sa,
          cpu_algorithm, files

gameVars == <<board_size, win_length, human_first, board, turn, game_over>>

trainVars == <<q, episodes, episode, pc, current_mark, last_sa>>

uiVars == <<cpu_algorithm, files>>

vars == <<gameVars, call, trainVars, uiVars>>

\* ------------------------------------------------------------ class Game
\* Game.__init__: the fields of a freshly constructed game.  No argument is
\* validated.
Game__init__(bs, wl, hf) ==
    /\ board_size' = bs
    /\ win_length' = wl
    /\ human_first' = hf
    /\ board' = [i \in 1..(bs * bs) |-> None]
    /\ turn' = 0
    /\ game_over' = FALSE

human_mark == IF human_first THEN "o" ELSE "x"

cpu_mark_as_human == IF human_first THEN "o" ELSE "x"

cpu_mark == IF human_first THEN "x" ELSE "o"

is_human_turn ==
    \/ (turn % 2 = 0 /\ human_first)
    \/ (turn % 2 = 1 /\ ~human_first)

legal_move(idx) == 0 <= idx /\ idx < Len(board) /\ board[idx + 1] = None

\* Game.available_moves: the empty cells in ascending index order.
available_moves(b) ==
    SelectSeq([i \in 1..Len(b) |-> i - 1], LAMBDA i : b[i + 1] = None)

DirectionsNoDownLeft == << <<1, 0>>, <<0, 1>>, <<1, 1>>, <<1, 1>> >>

Directions == << <<1, 0>>, <<0, 1>>, <<1, 1>>, <<1, -1>> >>

InBoardFlat(nr, nc, n) == 0 <= nr * n + nc /\ nr * n + nc < n * n

\* The bounds test of the while loop in winner.
InBoard(nr, nc, n) == 0 <= nr /\ nr < n /\ 0 <= nc /\ nc < n

\* The while loop of winner: TRUE when the walk from (nr, nc) along d, entered
\* with `count` cells already counted, makes the count reach k.
RECURSIVE Scan(_, _, _, _, _, _, _, _)
Scan(b, n, k, mark, nr, nc, d, count) ==
    IF InBoard(nr, nc, n) /\ b[nr * n + nc + 1] = mark
    THEN IF count + 1 >= k
         THEN TRUE
         ELSE Scan(b, n, k, mark, nr + d[1], nc + d[2], d, count + 1)
    ELSE FALSE

\* The cells from which winner returns: an occupied cell and a direction whose
\* walk reaches k.
WinOrigins(b, n, k) ==
    {idx \in 0..(Len(b) - 1) :
        /\ b[idx + 1] \in Marks
        /\ \E j \in 1..4 :
              Scan(b, n, k, b[idx + 1],
                   (idx \div n) + Directions[j][1], (idx % n) + Directions[j][2],
                   Directions[j], 1)}

\* Game.winner: the mark of the first cell, in index order, that returns.
winner(b, n, k) ==
    LET W == WinOrigins(b, n, k)
    IN  IF W = {} THEN None
        ELSE b[(CHOOSE i \in W : \A j \in W : i <= j) + 1]

is_draw_full_only(b, n, k) == \A i \in 1..Len(b) : b[i] # None

is_draw_never(b, n, k) == FALSE

is_draw(b, n, k) == (\A i \in 1..Len(b) : b[i] # None) /\ winner(b, n, k) = None

play_counts_rejected(idx, mark) ==
    IF game_over \/ ~legal_move(idx)
    THEN /\ board' = board
         /\ turn' = turn + 1
         /\ call' = [op |-> "play", idx |-> idx, mark |-> mark, ret |-> FALSE]
    ELSE /\ board' = [board EXCEPT ![idx + 1] = mark]
         /\ turn' = turn + 1
         /\ call' = [op |-> "play", idx |-> idx, mark |-> mark, ret |-> TRUE]

play_overwrites(idx, mark) ==
    IF game_over \/ ~(0 <= idx /\ idx < Len(board))
    THEN /\ UNCHANGED <<board, turn>>
         /\ call' = [op |-> "play", idx |-> idx, mark |-> mark, ret |-> FALSE]
    ELSE /\ board' = [board EXCEPT ![idx + 1] = mark]
         /\ turn' = turn + 1
         /\ call' = [op |-> "play", idx |-> idx, mark |-> mark,
                     ret |-> (board[idx + 1] = None)]

play_keeps_turn(idx, mark) ==
    IF game_over \/ ~legal_move(idx)
    THEN /\ UNCHANGED <<board, turn>>
         /\ call' = [op |-> "play", idx |-> idx, mark |-> mark, ret |-> FALSE]
    ELSE /\ board' = [board EXCEPT ![idx + 1] = mark]
         /\ turn' = turn
         /\ call' = [op |-> "play", idx |-> idx, mark |-> mark, ret |-> TRUE]

\* Game.play(idx, mark); call records the call and its return value.
play(idx, mark) ==
    IF game_over \/ ~legal_move(idx)
    THEN /\ UNCHANGED <<board, turn>>
         /\ call' = [op |-> "play", idx |-> idx, mark |-> mark, ret |-> FALSE]
    ELSE /\ board' = [board EXCEPT ![idx + 1] = mark]
         /\ turn' = turn + 1
         /\ call' = [op |-> "play", idx |-> idx, mark |-> mark, ret |-> TRUE]

\* ------------------------------------------------- a caller of class Game
Play(idx, mark) ==
    /\ play(idx, mark)
    /\ UNCHANGED <<board_size, win_length, human_first, game_over>>
    /\ UNCHANGED <<trainVars, uiVars>>

\* Game.reset(human_first)
Reset(hf) ==
    /\ Game__init__(board_size, win_length, hf)
    /\ call' = [op |-> "reset"]
    /\ UNCHANGED <<trainVars, uiVars>>

\* UI.check_game_over with the retry dialog answered No: when the position has
\* a winner or is a draw, game_over is set and the window is destroyed.
CheckGameOver ==
    LET win == winner(board, board_size, win_length)
        result == win # None \/ is_draw(board, board_size, win_length)
    IN  /\ game_over' = (game_over \/ result)
        /\ call' = [op |-> "check_game_over", ret |-> result]
        /\ UNCHANGED <<board_size, win_length, human_first, board, turn>>
        /\ UNCHANGED <<trainVars, uiVars>>

\* No agent is in use: an empty table, train_self_play not running.
NoTraining ==
    /\ q = << >>
    /\ episodes = 0
    /\ episode = 0
    /\ pc = "idle"
    /\ current_mark = "o"
    /\ last_sa = << >>
    /\ cpu_algorithm = "random"
    /\ files = << >>

Init ==
    /\ board_size \in 0..GameMaxSize
    /\ win_length \in 0..(GameMaxSize + 1)
    /\ human_first \in BOOLEAN
    /\ board = [i \in 1..(board_size * board_size) |-> None]
    /\ turn = 0
    /\ game_over = FALSE
    /\ call = [op |-> "__init__"]
    /\ NoTraining

Next ==
    \/ \E idx \in (-1)..Len(board), mark \in Marks : Play(idx, mark)
    \/ \E hf \in BOOLEAN : Reset(hf)
    \/ CheckGameOver

Spec == Init /\ [][Next]_vars

\* -------------------------------------- winner / is_draw on every board
Stones(b) == Cardinality({i \in 1..Len(b) : b[i] # None})

\* Any board a sequence of play calls can build, then one evaluation of it.
InitEval ==
    /\ board_size \in 0..EvalMaxSize
    /\ win_length \in 0..(board_size + 1)
    /\ human_first = TRUE
    /\ board \in [1..(board_size * board_size) -> Marks \cup {None}]
    /\ turn = Stones(board)
    /\ game_over = FALSE
    /\ call = [op |-> "__init__"]
    /\ NoTraining

\* The caller's `win = game.winner(); draw = game.is_draw()`.
Evaluate ==
    /\ call.op = "__init__"
    /\ call' = [op |-> "winner",
                ret |-> winner(board, board_size, win_length),
                draw |-> is_draw(board, board_size, win_length)]
    /\ UNCHANGED gameVars
    /\ UNCHANGED <<trainVars, uiVars>>

NextEval == Evaluate

SpecEval == InitEval /\ [][NextEval]_vars

\* ------------------------------------------------- class QLearningAgent
\* Table values are exact rationals <<numerator, denominator>> in lowest
\* terms with a positive denominator (the code computes them in floats).
\* Each operator takes its arguments by value: x \in {x0} evaluates x0 once.
Val(S) == CHOOSE v \in S : TRUE

Abs(x) == IF x < 0 THEN -x ELSE x

RECURSIVE GCD(_, _)
GCD(a0, b0) ==
    Val({IF b = 0 THEN a ELSE GCD(b, a % b) : a \in {a0}, b \in {b0}})

Rat(n0, d0) ==
    Val({<<n \div GCD(Abs(n), d), d \div GCD(Abs(n), d)>> : n \in {n0}, d \in {d0}})

Zero == <<0, 1>>

Scale(x, y) == y[2] \div GCD(x[2], y[2])

RAdd(x0, y0) ==
    Val({Rat(x[1] * Scale(x, y) + y[1] * Scale(y, x), x[2] * Scale(x, y)) :
            x \in {x0}, y \in {y0}})

RSub(x0, y0) == Val({RAdd(x, <<-y[1], y[2]>>) : x \in {x0}, y \in {y0}})

RMul(x0, y0) == Val({Rat(x[1] * y[1], x[2] * y[2]) : x \in {x0}, y \in {y0}})

RLess(x0, y0) ==
    Val({x[1] * Scale(x, y) < y[1] * Scale(y, x) : x \in {x0}, y \in {y0}})

\* QLearningAgent.__init__ defaults
alpha == <<3, 10>>

gamma_undiscounted == <<1, 1>>

gamma == <<9, 10>>

Range(seq) == {seq[i] : i \in 1..Len(seq)}

\* None where the code returns it in place of a cell index (cell indices
\* are the naturals, so the value is kept apart from them).
NoneMove == -1

\* The exception random.choice raises on an empty list, in place of a
\* returned cell index.
IndexError == -2

\* random.choice(seq): the outcomes it can have.
random_choice(seq) == IF seq = <<>> THEN {IndexError} ELSE Range(seq)

\* "".join(chars)
RECURSIVE Join(_, _)
Join(chars, i) == IF i > Len(chars) THEN "" ELSE chars[i] \o Join(chars, i + 1)

encode_state_without_mark(b, mark) ==
    Join([i \in 1..Len(b) |-> IF b[i] = None THEN "." ELSE b[i]], 1)

\* QLearningAgent.encode_state: a string.
encode_state(b, mark) ==
    mark \o ":" \o Join([i \in 1..Len(b) |-> IF b[i] = None THEN "." ELSE b[i]], 1)

\* QLearningAgent.q_filename: the file name; the directory is that of the
\* source file for every agent and is left out.
q_filename(bs, wl) ==
    "q_table_" \o ToString(bs) \o "_" \o ToString(wl) \o "_"
        \o ToString(TRAINING_EPISODES) \o ".pkl"

get_q(qt, state, action) ==
    IF <<state, action>> \in DOMAIN qt THEN qt[<<state, action>>] ELSE Zero

q_after_get_setdefault(qt, state, action) ==
    [key \in DOMAIN qt \cup {<<state, action>>} |->
        IF key \in DOMAIN qt THEN qt[key] ELSE Zero]

\* get_q: the table after the call; dict.get inserts nothing.
q_after_get(qt, state, action) == qt

\* best_action: the table after its get_q calls on moves[i..].
RECURSIVE q_after_best(_, _, _, _)
q_after_best(qt, state, moves, i) ==
    IF i > Len(moves) THEN qt
    ELSE q_after_best(q_after_get(qt, state, moves[i]), state, moves, i + 1)

\* The loop of best_action over moves[i..]: the list best_actions it ends
\* with; an empty best_actions stands for best_val = None.
RECURSIVE BestLoop(_, _, _, _, _, _)
BestLoop(qt, state, moves, i, best_val, best_actions) ==
    IF i > Len(moves) THEN best_actions
    ELSE LET value == get_q(qt, state, moves[i])
         IN  IF best_actions = <<>> \/ RLess(best_val, value)
             THEN BestLoop(qt, state, moves, i + 1, value, <<moves[i]>>)
             ELSE IF value = best_val
                  THEN BestLoop(qt, state, moves, i + 1, best_val,
                                Append(best_actions, moves[i]))
                  ELSE BestLoop(qt, state, moves, i + 1, best_val, best_actions)

best_action_first_index(qt, state, moves) ==
    LET best_actions == BestLoop(qt, state, moves, 1, Zero, <<>>)
    IN  IF best_actions = <<>> THEN {NoneMove} ELSE {best_actions[1]}

\* best_action: the values it can return, {NoneMove} for no moves.
best_action(qt, state, moves) ==
    LET best_actions == BestLoop(qt, state, moves, 1, Zero, <<>>)
    IN  IF best_actions = <<>> THEN {NoneMove} ELSE random_choice(best_actions)

choose_action_any_cell(qt, b, mark, moves, training, explore) ==
    0..(Len(b) - 1)

\* choose_action: the outcomes it can have; `explore` is the outcome of
\* random.random() < epsilon.
choose_action(qt, b, mark, moves, training, explore) ==
    IF training /\ explore
    THEN random_choice(moves)
    ELSE best_action(qt, encode_state(b, mark), moves)

RECURSIVE MaxQ(_, _, _, _)
MaxQ(qt, state, moves, i) ==
    IF i = Len(moves) THEN get_q(qt, state, moves[i])
    ELSE LET rest == MaxQ(qt, state, moves, i + 1)
             here == get_q(qt, state, moves[i])
         IN  IF RLess(here, rest) THEN rest ELSE here

\* QLearningAgent.update: the table after the call.
update(qt, state, action, reward, next_state, next_moves, done) ==
    LET current == get_q(qt, state, action)
        max_next == IF next_moves # <<>>
                    THEN MaxQ(qt, next_state, next_moves, 1)
                    ELSE Zero
        target == IF done THEN reward ELSE RAdd(reward, RMul(gamma, max_next))
        new == RAdd(current, RMul(alpha, RSub(target, current)))
    IN  [key \in DOMAIN qt \cup {<<state, action>>} |->
            IF key = <<state, action>> THEN new ELSE qt[key]]

\* train_self_play, `reward = 1.0 if win == current_mark else 0.0`
mover_reward(win, mark) == IF win = mark THEN <<1, 1>> ELSE Zero

other_reward_zero(win) == Zero

\* train_self_play, `other_reward = -1.0 if win else 0.0`
other_reward(win) == IF win # None THEN <<-1, 1>> ELSE Zero

\* The head of `for _ in range(episodes)` with another episode to run: a new
\* Game, "o" to move, no pending pairs.
StartEpisode ==
    /\ pc = "for"
    /\ episode < episodes
    /\ Game__init__(board_size, win_length, TRUE)
    /\ current_mark' = "o"
    /\ last_sa' = [m \in {} |-> <<>>]
    /\ episode' = episode + 1
    /\ pc' = "while"
    /\ call' = [op |-> "episode"]
    /\ UNCHANGED <<q, episodes>>
    /\ UNCHANGED uiVars

\* The head of the for loop with the episodes used up: train_self_play returns.
TrainReturn ==
    /\ pc = "for"
    /\ episode >= episodes
    /\ pc' = "returned"
    /\ call' = [op |-> "return"]
    /\ UNCHANGED gameVars
    /\ UNCHANGED <<q, episodes, episode, current_mark, last_sa>>
    /\ UNCHANGED uiVars

\* An iteration of `while True` that finds no available move: break.
TrainNoMoves ==
    /\ pc = "while"
    /\ available_moves(board) = <<>>
    /\ pc' = "for"
    /\ call' = [op |-> "no_moves"]
    /\ UNCHANGED gameVars
    /\ UNCHANGED <<q, episodes, episode, current_mark, last_sa>>
    /\ UNCHANGED uiVars

\* An iteration of `while True` that makes a move: choose, play, evaluate,
\* update the table, then break (win or draw) or hand over to the other mark.
\* call.updates lists the update calls made, in order.
TrainMove(explore, action) ==
    /\ pc = "while"
    /\ available_moves(board) # <<>>
    /\ action \in choose_action(q, board, current_mark, available_moves(board),
                                TRUE, explore)
    /\ LET state == encode_state(board, current_mark)
           played == ~(game_over \/ ~legal_move(action))
           nb == IF played THEN [board EXCEPT ![action + 1] = current_mark]
                 ELSE board
           win == winner(nb, board_size, win_length)
           draw == is_draw(nb, board_size, win_length)
           other == IF current_mark = "o" THEN "x" ELSE "o"
       IN  /\ board' = nb
           /\ turn' = IF played THEN turn + 1 ELSE turn
           /\ UNCHANGED <<board_size, win_length, human_first, game_over>>
           /\ IF win # None \/ draw
              THEN LET reward == mover_reward(win, current_mark)
                       q1 == update(q, state, action, reward, None, <<>>, TRUE)
                       u1 == [state |-> state, action |-> action,
                              reward |-> reward, done |-> TRUE]
                   IN  /\ IF other \in DOMAIN last_sa
                          THEN /\ q' = update(q1, last_sa[other][1], last_sa[other][2],
                                              other_reward(win), None, <<>>, TRUE)
                               /\ call' = [op |-> "train_move", mover |-> current_mark,
                                           state |-> state, action |-> action,
                                           win |-> win, draw |-> draw,
                                           updates |-> <<u1,
                                               [state |-> last_sa[other][1],
                                                action |-> last_sa[other][2],
                                                reward |-> other_reward(win),
                                                done |-> TRUE]>>]
                          ELSE /\ q' = q1
                               /\ call' = [op |-> "train_move", mover |-> current_mark,
                                           state |-> state, action |-> action,
                                           win |-> win, draw |-> draw,
                                           updates |-> <<u1>>]
                       /\ pc' = "for"
                       /\ UNCHANGED <<current_mark, last_sa>>
              ELSE /\ q' = update(q, state, action, Zero,
                                  encode_state(nb, other), available_moves(nb), FALSE)
                   /\ call' = [op |-> "train_move", mover |-> current_mark,
                               state |-> state, action |-> action,
                               win |-> win, draw |-> draw,
                               updates |-> <<[state |-> state, action |-> action,
                                              reward |-> Zero, done |-> FALSE]>>]
                   /\ last_sa' = [m \in DOMAIN last_sa \cup {current_mark} |->
                                     IF m = current_mark THEN <<state, action>>
                                     ELSE last_sa[m]]
                   /\ current_mark' = other
                   /\ pc' = "while"
    /\ UNCHANGED <<episodes, episode>>
    /\ UNCHANGED uiVars

\* agent.save() after train_self_play has returned: the table is written
\* under q_filename().
Save ==
    /\ pc = "returned"
    /\ files' = [f \in DOMAIN files \cup {q_filename(board_size, win_length)} |->
                    IF f = q_filename(board_size, win_length) THEN q ELSE files[f]]
    /\ pc' = "saved"
    /\ call' = [op |-> "save", filename |-> q_filename(board_size, win_length)]
    /\ UNCHANGED gameVars
    /\ UNCHANGED <<q, episodes, episode, current_mark, last_sa, cpu_algorithm>>

\* load_if_exists() of an agent built later for the same board_size and
\* win_length: it takes the table stored under q_filename(), if there is one.
LoadIfExists ==
    /\ pc = "saved"
    /\ LET filename == q_filename(board_size, win_length)
       IN  IF filename \in DOMAIN files
           THEN /\ q' = files[filename]
                /\ call' = [op |-> "load_if_exists", filename |-> filename,
                            ret |-> TRUE]
           ELSE /\ q' = [key \in {} |-> Zero]
                /\ call' = [op |-> "load_if_exists", filename |-> filename,
                            ret |-> FALSE]
    /\ pc' = "loaded"
    /\ UNCHANGED gameVars
    /\ UNCHANGED <<episodes, episode, current_mark, last_sa>>
    /\ UNCHANGED uiVars

\* UI.__init__ with the Q-learning opponent and no saved table: the agent is
\* built for the game's board_size and win_length with an empty table, and
\* train_self_play(episodes) is entered.
InitTrain ==
    /\ board_size \in 0..TrainMaxSize
    /\ win_length \in 1..(TrainMaxSize + 1)
    /\ human_first \in BOOLEAN
    /\ board = [i \in 1..(board_size * board_size) |-> None]
    /\ turn = 0
    /\ game_over = FALSE
    /\ call = [op |-> "train_self_play"]
    /\ q = [key \in {} |-> Zero]
    /\ episodes \in 0..MaxEpisodes
    /\ episode = 0
    /\ pc = "for"
    /\ current_mark = "o"
    /\ last_sa = [m \in {} |-> <<>>]
    /\ cpu_algorithm = "q"
    /\ files = << >>

NextTrain ==
    \/ StartEpisode
    \/ TrainReturn
    \/ TrainNoMoves
    \/ Save
    \/ LoadIfExists
    \/ \E explore \in BOOLEAN, action \in 0..(Len(board) - 1) :
           TrainMove(explore, action)

SpecTrain == InitTrain /\ [][NextTrain]_vars

\* train_self_play and the save after it are straight-line code run by one
\* thread: whenever a next step exists it is taken.
SpecTrainFair == InitTrain /\ [][NextTrain]_vars /\ WF_vars(NextTrain)

\* select_move: the outcomes it can have.
select_move(qt, b, mark, moves) ==
    LET outs == best_action(qt, encode_state(b, mark), moves)
    IN  IF outs = {NoneMove} THEN random_choice(moves) ELSE outs

\* Game.cpu_choose_move: the outcomes it can have.
cpu_choose_move(b) ==
    IF available_moves(b) = <<>> THEN {NoneMove}
    ELSE random_choice(available_moves(b))

\* ---------------------------- one call of a move chooser or agent method
\* Values a table entry is drawn from.
QValues == {Zero, <<3, 10>>, <<-3, 10>>}

\* The tables with entries for some of the empty cells of b, mark to act.
TablesFor(b, mark) ==
    UNION {[{<<encode_state(b, mark), a>> : a \in A} -> QValues] :
              A \in SUBSET Range(available_moves(b))}

\* A game position, the mark to act and a trained or loaded table.
InitAgent ==
    /\ board_size \in 0..AgentMaxSize
    /\ win_length = board_size
    /\ human_first = TRUE
    /\ board \in [1..(board_size * board_size) -> Marks \cup {None}]
    /\ turn = Stones(board)
    /\ game_over = FALSE
    /\ call = [op |-> "agent"]
    /\ current_mark \in Marks
    /\ q \in TablesFor(board, current_mark)
    /\ episodes = 0
    /\ episode = 0
    /\ pc = "idle"
    /\ last_sa = << >>
    /\ cpu_algorithm = "q"
    /\ files = << >>

AgentFrame == UNCHANGED <<gameVars, episodes, episode, pc, current_mark, last_sa, uiVars>>

\* agent.select_move(board, mark, game.available_moves()); call.choices is
\* the set of outcomes the call can have, call.ret the one it has.
CallSelectMove ==
    /\ call.op = "agent"
    /\ LET moves == available_moves(board)
           outs == select_move(q, board, current_mark, moves)
       IN  /\ \E r \in outs :
                 call' = [op |-> "select_move", moves |-> moves,
                          choices |-> outs, ret |-> r]
           /\ q' = q_after_best(q, encode_state(board, current_mark), moves, 1)
    /\ AgentFrame

\* agent.best_action(encode_state(board, mark), game.available_moves())
CallBestAction ==
    /\ call.op = "agent"
    /\ LET moves == available_moves(board)
           outs == best_action(q, encode_state(board, current_mark), moves)
       IN  /\ \E r \in outs :
                 call' = [op |-> "best_action", moves |-> moves,
                          choices |-> outs, ret |-> r]
           /\ q' = q_after_best(q, encode_state(board, current_mark), moves, 1)
    /\ AgentFrame

\* agent.choose_action(board, mark, game.available_moves(), training)
CallChooseAction(training, explore) ==
    /\ call.op = "agent"
    /\ LET moves == available_moves(board)
           outs == choose_action(q, board, current_mark, moves, training, explore)
       IN  /\ \E r \in outs :
                 call' = [op |-> "choose_action", moves |-> moves,
                          training |-> training, choices |-> outs, ret |-> r]
           /\ q' = IF training /\ explore THEN q
                   ELSE q_after_best(q, encode_state(board, current_mark), moves, 1)
    /\ AgentFrame

\* game.cpu_choose_move()
CallCpuChooseMove ==
    /\ call.op = "agent"
    /\ \E r \in cpu_choose_move(board) :
          call' = [op |-> "cpu_choose_move", moves |-> available_moves(board),
                   choices |-> cpu_choose_move(board), ret |-> r]
    /\ q' = q
    /\ AgentFrame

\* agent.get_q(encode_state(board, mark), action)
CallGetQ(action) ==
    /\ call.op = "agent"
    /\ call' = [op |-> "get_q", action |-> action,
                ret |-> get_q(q, encode_state(board, current_mark), action)]
    /\ q' = q_after_get(q, encode_state(board, current_mark), action)
    /\ AgentFrame

\* agent.encode_state(board, mark)
CallEncodeState ==
    /\ call.op = "agent"
    /\ call' = [op |-> "encode_state", ret |-> encode_state(board, current_mark)]
    /\ q' = q
    /\ AgentFrame

\* agent.update(...) as train_self_play calls it for a move to cell `action`:
\* terminal with a reward, or not terminal with the position after the move.
CallUpdate(action, reward, done) ==
    /\ call.op = "agent"
    /\ action \in Range(available_moves(board))
    /\ LET state == encode_state(board, current_mark)
           nb == [board EXCEPT ![action + 1] = current_mark]
           other == IF current_mark = "o" THEN "x" ELSE "o"
       IN  /\ q' = IF done
                   THEN update(q, state, action, reward, None, <<>>, TRUE)
                   ELSE update(q, state, action, Zero, encode_state(nb, other),
                               available_moves(nb), FALSE)
           /\ call' = [op |-> "update", action |-> action, done |-> done]
    /\ AgentFrame

NextAgent ==
    \/ CallSelectMove
    \/ CallBestAction
    \/ \E training \in BOOLEAN, explore \in BOOLEAN : CallChooseAction(training, explore)
    \/ CallCpuChooseMove
    \/ \E action \in 0..(Len(board) - 1) : CallGetQ(action)
    \/ CallEncodeState
    \/ \E action \in 0..(Len(board) - 1), reward \in {<<1, 1>>, Zero, <<-1, 1>>},
          done \in BOOLEAN : CallUpdate(action, reward, done)

SpecAgent == InitAgent /\ [][NextAgent]_vars

\* ------------------------------------------------------------- class UI
\* pc is "init" at the end of UI.__init__ before its cpu_step, "waiting" in
\* the main loop, "dialog" while the result dialog of check_game_over is
\* open, "destroyed" after root.destroy().

\* index_from_event for a click in grid row `row`, column `col`; BOARD_SIZE
\* is the game's board_size.
index_from_event(row, col) ==
    IF 0 <= row /\ row < board_size /\ 0 <= col /\ col < board_size
    THEN row * board_size + col
    ELSE NoneMove

result_text_win_only(b) == winner(b, board_size, win_length) # None

\* check_game_over: whether result_text is set for the board.
result_text(b) ==
    \/ winner(b, board_size, win_length) # None
    \/ is_draw(b, board_size, win_length)

\* cpu_step: the values idx can take on board b for the CPU's mark.
cpu_step_idx(b, mark) ==
    IF cpu_algorithm = "q"
    THEN IF available_moves(b) = <<>> THEN {NoneMove}
         ELSE select_move(q, b, mark, available_moves(b))
    ELSE cpu_choose_move(b)

\* cpu_step entered with game_over false, turn t and idx chosen: the play
\* call and check_game_over up to the point where the dialog opens.
cpu_step(b, t, mark, idx) ==
    IF idx = NoneMove
    THEN [board |-> b, turn |-> t, game_over |-> FALSE, placed |-> <<>>]
    ELSE LET played == 0 <= idx /\ idx < Len(b) /\ b[idx + 1] = None
             nb == IF played THEN [b EXCEPT ![idx + 1] = mark] ELSE b
         IN  [board |-> nb,
              turn |-> IF played THEN t + 1 ELSE t,
              game_over |-> result_text(nb),
              placed |-> IF played THEN <<mark>> ELSE <<>>]

\* The table the Q-learning opponent plays with: a trained table with an
\* entry for the first move on the empty board; it lacks the other keys.
QTablesUI(bs) ==
    {[key \in {<<encode_state([i \in 1..(bs * bs) |-> None], "o"), 0>>} |->
         <<-3, 10>>]}

\* UI.__init__ after choose_order, choose_cpu_algorithm, Game(human_first)
\* and the loading or training of the agent's table.
InitUI ==
    /\ board_size \in 1..UIMaxSize
    /\ win_length \in 1..board_size
    /\ human_first \in BOOLEAN
    /\ board = [i \in 1..(board_size * board_size) |-> None]
    /\ turn = 0
    /\ game_over = FALSE
    /\ call = [op |-> "UI", placed |-> <<>>]
    /\ cpu_algorithm \in {"q", "random"}
    /\ q \in IF cpu_algorithm = "q" THEN QTablesUI(board_size)
             ELSE {[key \in {} |-> Zero]}
    /\ episodes = 0
    /\ episode = 0
    /\ pc = "init"
    /\ current_mark = "o"
    /\ last_sa = << >>
    /\ files = << >>

UIFrame ==
    UNCHANGED <<board_size, win_length, q, episodes, episode, current_mark,
                last_sa, cpu_algorithm, files>>

\* The end of UI.__init__: the CPU moves first if the human does not.
UIStart ==
    /\ pc = "init"
    /\ IF human_first
       THEN /\ pc' = "waiting"
            /\ call' = [op |-> "__init__", placed |-> <<>>]
            /\ UNCHANGED <<board, turn, game_over>>
       ELSE \E idx \in cpu_step_idx(board, cpu_mark) :
               LET r == cpu_step(board, turn, cpu_mark, idx)
               IN  /\ board' = r.board
                   /\ turn' = r.turn
                   /\ game_over' = r.game_over
                   /\ pc' = IF r.game_over THEN "dialog" ELSE "waiting"
                   /\ call' = [op |-> "__init__", placed |-> r.placed]
    /\ UNCHANGED human_first
    /\ UIFrame

\* on_click for a click at (row, col): the human's stone, check_game_over,
\* then cpu_step with its own check_game_over; a click the guards reject
\* returns with no effect. call.placed lists the marks of the stones placed, in order.
OnClick(row, col) ==
    /\ pc \in {"waiting", "dialog"}
    /\ LET idx == index_from_event(row, col)
       IN  IF game_over \/ ~is_human_turn \/ idx = NoneMove \/ ~legal_move(idx)
           THEN UNCHANGED <<board, turn, game_over, pc, call>>
           ELSE LET b1 == [board EXCEPT ![idx + 1] = human_mark]
                    p1 == human_mark
                IN  IF result_text(b1)
                    THEN /\ board' = b1
                         /\ turn' = turn + 1
                         /\ game_over' = TRUE
                         /\ pc' = "dialog"
                         /\ call' = [op |-> "on_click", placed |-> <<p1>>]
                    ELSE \E cidx \in cpu_step_idx(b1, cpu_mark) :
                            LET r == cpu_step(b1, turn + 1, cpu_mark, cidx)
                            IN  /\ board' = r.board
                                /\ turn' = r.turn
                                /\ game_over' = r.game_over
                                /\ pc' = IF r.game_over THEN "dialog" ELSE "waiting"
                                /\ call' = [op |-> "on_click",
                                            placed |-> <<p1>> \o r.placed]
    /\ UNCHANGED human_first
    /\ UIFrame

\* The result dialog answered Yes: start_new_game with choose_order
\* answered hf, i.e. reset and, if the CPU is first, cpu_step.
DialogRetry(hf) ==
    /\ pc = "dialog"
    /\ human_first' = hf
    /\ LET b0 == [i \in 1..(board_size * board_size) |-> None]
       IN  IF hf
           THEN /\ board' = b0
                /\ turn' = 0
                /\ game_over' = FALSE
                /\ pc' = "waiting"
                /\ call' = [op |-> "start_new_game", placed |-> <<>>]
           ELSE \E idx \in cpu_step_idx(b0, cpu_mark') :
                   LET r == cpu_step(b0, 0, cpu_mark', idx)
                   IN  /\ board' = r.board
                       /\ turn' = r.turn
                       /\ game_over' = r.game_over
                       /\ pc' = IF r.game_over THEN "dialog" ELSE "waiting"
                       /\ call' = [op |-> "start_new_game", placed |-> r.placed]
    /\ UIFrame

\* The result dialog answered No: root.destroy().
DialogNo ==
    /\ pc = "dialog"
    /\ pc' = "destroyed"
    /\ call' = [op |-> "destroy", placed |-> <<>>]
    /\ UNCHANGED gameVars
    /\ UIFrame

NextUI ==
    \/ UIStart
    \/ \E row \in 0..board_size, col \in 0..board_size : OnClick(row, col)
    \/ \E hf \in BOOLEAN : DialogRetry(hf)
    \/ DialogNo

SpecUI == InitUI /\ [][NextUI]_vars

\* ------------------------------------------------------------ properties
InvalidConfig == win_length > board_size \/ board_size <= 0 \/ win_length <= 0

PositionDecided ==
    \/ winner(board, board_size, win_length) # None
    \/ is_draw(board, board_size, win_length)

\* C1: once the position has a winner or is a draw, game_over is true and
\* every further play call returns False and places no stone.
C1_DecidedPositionIsTerminal ==
    [][(PositionDecided /\ ~InvalidConfig) =>
          /\ game_over
          /\ (call'.op = "play" => (call'.ret = FALSE /\ board' = board))]_vars

\* C2: in every state reached by play and reset calls, turn equals the
\* number of occupied cells.
C2_TurnCountsStones == turn = Stones(board)

C2_Witness ==
    /\ call.op = "play"
    /\ call.ret = FALSE
    /\ turn = 3
    /\ ~game_over

\* C3: a play call made with game_over true, with idx out of range or on an
\* occupied cell returns False and leaves board, turn and game_over as they
\* were.
C3_RejectedMoveUnchanged ==
    [][(/\ call'.op = "play"
        /\ \/ game_over
           \/ call'.idx < 0
           \/ call'.idx >= board_size * board_size
           \/ board[call'.idx + 1] # None)
       => (/\ call'.ret = FALSE
           /\ board' = board
           /\ turn' = turn
           /\ game_over' = game_over)]_vars

C3_Witness ==
    /\ call.op = "play"
    /\ call.ret = FALSE
    /\ game_over
    /\ call.idx >= 0
    /\ call.idx < Len(board)
    /\ board[call.idx + 1] = None

\* k cells of mark m in a straight line that starts at (r, c), runs along
\* (dr, dc) and lies inside the n x n board.
RunAt(b, n, k, m, r, c, dr, dc) ==
    \A i \in 0..(k - 1) :
        /\ r + i * dr \in 0..(n - 1)
        /\ c + i * dc \in 0..(n - 1)
        /\ b[(r + i * dr) * n + (c + i * dc) + 1] = m

HasRun(b, n, k, m) ==
    \E r \in 0..(n - 1), c \in 0..(n - 1) :
        \/ RunAt(b, n, k, m, r, c, 0, 1)
        \/ RunAt(b, n, k, m, r, c, 1, 0)
        \/ RunAt(b, n, k, m, r, c, 1, 1)
        \/ RunAt(b, n, k, m, r, c, 1, -1)

OtherMark(m) == IF m = "o" THEN "x" ELSE "o"

\* C4: for 2 <= k <= n, a board holding k consecutive cells of one mark in a
\* row, a column or either diagonal has a winner, and the winner is that mark
\* when the other mark has no run.
C4_WinDetectionComplete ==
    (call.op = "winner" /\ 2 <= win_length /\ win_length <= board_size) =>
        \A m \in Marks :
            HasRun(board, board_size, win_length, m) =>
                /\ call.ret # None
                /\ (~HasRun(board, board_size, win_length, OtherMark(m))
                        => call.ret = m)

C4_Witness ==
    /\ call.op = "winner"
    /\ board_size = 3
    /\ win_length = 3
    /\ board = <<None, None, "o", None, "o", None, "o", None, None>>
    /\ call.ret = "o"

\* A row, a column or one of the two main diagonals completely filled with m.
FullLine(b, n, m) ==
    \/ \E r \in 0..(n - 1) : \A c \in 0..(n - 1) : b[r * n + c + 1] = m
    \/ \E c \in 0..(n - 1) : \A r \in 0..(n - 1) : b[r * n + c + 1] = m
    \/ \A i \in 0..(n - 1) : b[i * n + i + 1] = m
    \/ \A i \in 0..(n - 1) : b[i * n + (n - 1 - i) + 1] = m

\* C5: winner returns m only if the board holds win_length consecutive cells
\* of m on one straight line inside the board (cells adjacent only in the
\* flat index are no run); with win_length = board_size only a completely
\* filled row, column or main diagonal wins.
C5_WinDetectionSound ==
    (call.op = "winner" /\ call.ret # None) =>
        /\ call.ret \in Marks
        /\ HasRun(board, board_size, win_length, call.ret)
        /\ (win_length = board_size => FullLine(board, board_size, call.ret))

\* "o" on the last cell of row 0 and the first cell of row 1 comes first in
\* the scan and is no run; the diagonal pair of "x" is.
C5_Witness ==
    /\ call.op = "winner"
    /\ board_size = 3
    /\ win_length = 2
    /\ board = <<None, None, "o", "o", "x", None, None, None, "x">>
    /\ call.ret = "x"

\* C6: with win_length = 1 the first stone placed on the empty board wins:
\* after that accepted play, winner returns the mark just placed.
C6_FirstStoneWins ==
    (win_length = 1 /\ call.op = "play" /\ call.ret = TRUE /\ turn = 1) =>
        winner(board, board_size, win_length) = call.mark

\* C7: a game with win_length > board_size, board_size <= 0 or win_length <= 0
\* is not constructed, so no such game ever accepts a move.
C7_InvalidConfigFails == InvalidConfig => ~(call.op = "play" /\ call.ret = TRUE)

\* C8 as stated: a play call leaves the cells and the ply count of the game
\* it was applied to unchanged.
C8_PlayKeepsPriorState ==
    [][(call'.op = "play" /\ ~InvalidConfig) =>
          (board' = board /\ turn' = turn)]_vars

\* C8 amended: play works in place.  An accepted play(idx, mark) writes mark
\* into the empty cell idx of the game's own board, changes no other cell,
\* adds one to turn and keeps game_over; the same action applied again right
\* after is rejected and changes nothing.
C8_PlayMutatesInPlace ==
    [][call'.op = "play" =>
          /\ call'.ret = TRUE =>
                /\ board[call'.idx + 1] = None
                /\ board'[call'.idx + 1] = call'.mark
                /\ \A j \in 1..Len(board) :
                       j # call'.idx + 1 => board'[j] = board[j]
                /\ Len(board') = Len(board)
                /\ turn' = turn + 1
                /\ game_over' = game_over
          /\ (call.op = "play" /\ call.ret = TRUE /\ call'.idx = call.idx) =>
                /\ call'.ret = FALSE
                /\ board' = board
                /\ turn' = turn]_vars

\* The same action applied a second time: rejected, the stone of the first
\* application still in place.
C8_Witness ==
    /\ call.op = "play"
    /\ call.ret = FALSE
    /\ ~game_over
    /\ call.idx >= 0
    /\ call.idx < Len(board)
    /\ board[call.idx + 1] = call.mark
    /\ turn = 1

EmptyCells(b) == {i \in 1..Len(b) : b[i] = None}

\* C9: for board_size >= win_length >= 1, is_draw is true exactly when no
\* cell is empty and winner is None; with no winner and an empty cell the
\* position is in progress, in particular on the board without stones.
C9_OutcomeClassification ==
    (call.op = "winner" /\ board_size >= win_length /\ win_length >= 1) =>
        /\ call.draw <=> (EmptyCells(board) = {} /\ call.ret = None)
        /\ (call.ret = None /\ EmptyCells(board) # {}) => call.draw = FALSE
        /\ Stones(board) = 0 => (call.ret = None /\ call.draw = FALSE)

C9_Witness ==
    /\ call.op = "winner"
    /\ board_size = 3
    /\ win_length = 3
    /\ call.draw = TRUE
    /\ call.ret = None

\* Q + alpha * (target - Q) with alpha = 0.3, as (7 * Q + 3 * target) / 10.
Blend(cur, target) == RAdd(RMul(<<7, 10>>, cur), RMul(<<3, 10>>, target))

\* The table qt with the listed terminal updates applied: every other key
\* keeps its value and no other key appears.
TableAfter(qt, qn, ups) ==
    /\ DOMAIN qn = DOMAIN qt \cup {<<ups[i].state, ups[i].action>> : i \in 1..Len(ups)}
    /\ \A key \in DOMAIN qn :
          IF \E i \in 1..Len(ups) : key = <<ups[i].state, ups[i].action>>
          THEN \A i \in 1..Len(ups) :
                  key = <<ups[i].state, ups[i].action>> =>
                      qn[key] = Blend(IF key \in DOMAIN qt THEN qt[key] ELSE <<0, 1>>,
                                      ups[i].reward)
          ELSE qn[key] = qt[key]

\* C10: a self-play move that produces a win or a draw updates the mover's
\* (state, action) with terminal target 1.0 if the mover won and 0.0 on a
\* draw; a pending (state, action) of the other mark is then updated with
\* terminal target -1.0 if there is a winner and 0.0 on a draw; the episode
\* ends and the table is not updated again before the next episode's moves.
C10_TerminalUpdate ==
    [][/\ (call'.op = "train_move" /\ (call'.win # None \/ call'.draw)) =>
             LET mover == current_mark
                 other == OtherMark(current_mark)
                 ups == call'.updates
             IN  /\ call'.win # None => call'.win = mover
                 /\ ups[1].state = encode_state(board, mover)
                 /\ board[ups[1].action + 1] = None
                 /\ board'[ups[1].action + 1] = mover
                 /\ ups[1].done = TRUE
                 /\ ups[1].reward = IF call'.win # None THEN <<1, 1>> ELSE <<0, 1>>
                 /\ IF other \in DOMAIN last_sa
                    THEN /\ Len(ups) = 2
                         /\ <<ups[2].state, ups[2].action>> = last_sa[other]
                         /\ ups[2].done = TRUE
                         /\ ups[2].reward =
                               IF call'.win # None THEN <<-1, 1>> ELSE <<0, 1>>
                    ELSE Len(ups) = 1
                 /\ TableAfter(q, q', ups)
                 /\ pc' = "for"
       /\ pc = "for" => q' = q]_vars

\* A second-episode win of "o" over a pending move of "x", on a table that
\* already holds the values of an earlier win and loss.
C10_Witness ==
    /\ call.op = "train_move"
    /\ call.win = "o"
    /\ Len(call.updates) = 2
    /\ episode = 2
    /\ \E k1 \in DOMAIN q, k2 \in DOMAIN q :
          /\ q[k1] = <<51, 100>>
          /\ q[k2] = <<-3903, 10000>>

\* The value of key <<state, a>> in table qt, 0.0 when absent.
ValueOf(qt, state, a) ==
    IF <<state, a>> \in DOMAIN qt THEN qt[<<state, a>>] ELSE <<0, 1>>

\* The largest value of table qt at `state` over the empty cells of board b.
MaxOverEmpty(qt, state, b) ==
    LET vals == {ValueOf(qt, state, i - 1) : i \in EmptyCells(b)}
    IN  CHOOSE v \in vals : \A w \in vals : ~RLess(v, w)

\* C11: a self-play move that leaves the game in progress updates the mover's
\* (state, action) towards 0.0 + gamma * max over the legal actions a of the
\* resulting board of Q(encode(resulting board, opponent), a), records that
\* pair as the mover's pending pair and hands over to the opponent; the
\* movers alternate, "o" first.
C11_NonTerminalUpdate ==
    [][call'.op = "train_move" =>
          /\ call'.mover = current_mark
          /\ call'.mover = IF turn % 2 = 0 THEN "o" ELSE "x"
          /\ (call'.win = None /\ call'.draw = FALSE) =>
                LET mover == current_mark
                    other == OtherMark(current_mark)
                    ups == call'.updates
                    key == <<ups[1].state, ups[1].action>>
                    target == RMul(<<9, 10>>,
                                   MaxOverEmpty(q, encode_state(board', other), board'))
                IN  /\ Len(ups) = 1
                    /\ ups[1].done = FALSE
                    /\ ups[1].state = encode_state(board, mover)
                    /\ board[ups[1].action + 1] = None
                    /\ board'[ups[1].action + 1] = mover
                    /\ EmptyCells(board') # {}
                    /\ DOMAIN q' = DOMAIN q \cup {key}
                    /\ q'[key] = Blend(ValueOf(q, key[1], key[2]), target)
                    /\ \A k2 \in DOMAIN q : k2 # key => q'[k2] = q[k2]
                    /\ DOMAIN last_sa' = DOMAIN last_sa \cup {mover}
                    /\ last_sa'[mover] = key
                    /\ other \in DOMAIN last_sa => last_sa'[other] = last_sa[other]
                    /\ current_mark' = other
                    /\ pc' = "while"]_vars

\* In the second episode "x" moves to a position whose best reply is already
\* valued 0.3: its entry -0.3 moves towards 0.9 * 0.3.
C11_Witness ==
    /\ call.op = "train_move"
    /\ call.win = None
    /\ call.draw = FALSE
    /\ call.mover = "x"
    /\ current_mark = "o"
    /\ q[<<call.state, call.action>>] = <<-129, 1000>>

\* The moves of the list whose table value at `state` is the largest.
Maximizers(qt, state, moves) ==
    {a \in Range(moves) :
        \A b \in Range(moves) : ~RLess(ValueOf(qt, state, a), ValueOf(qt, state, b))}

\* C12: on a non-empty list of legal moves, the set of actions best_action
\* and select_move can return is exactly the set of moves whose table value
\* (0.0 if absent) is the maximum over the list.
C12_GreedyPicksAnyMaximizer ==
    (call.op \in {"select_move", "best_action"} /\ call.moves # <<>>) =>
        /\ call.choices =
              Maximizers(q, encode_state(board, current_mark), call.moves)
        /\ call.ret \in call.choices

\* Two maximizers and a smaller move; the one returned is not the lowest index.
C12_Witness ==
    /\ call.op = "select_move"
    /\ Cardinality(call.choices) >= 2
    /\ \E a \in call.choices : a < call.ret
    /\ call.choices # Range(call.moves)

\* C13: cpu_choose_move and choose_action (training false or true) return
\* None if and only if the list of legal moves is empty, and a move of the
\* list otherwise.
C13_NoneIffNoMoves ==
    (call.op \in {"cpu_choose_move", "choose_action"} /\ board_size >= 1) =>
        /\ call.ret = NoneMove <=> call.moves = <<>>
        /\ call.moves # <<>> => call.ret \in Range(call.moves)

\* C14: two (board, mark) pairs have the same encoding if and only if they
\* have the same cells and the same mark.
C14_EncodingInjective ==
    call.op = "encode_state" =>
        \A n2 \in 0..AgentMaxSize :
            \A b2 \in [1..(n2 * n2) -> Marks \cup {None}], m2 \in Marks :
                (encode_state(b2, m2) = call.ret) <=>
                    (b2 = board /\ m2 = current_mark)

C14_Witness ==
    /\ call.op = "encode_state"
    /\ board = <<"o", None, None, "x">>
    /\ current_mark = "x"
    /\ call.ret = "x:o..x"

\* C16: select_move, best_action and get_q leave the table unchanged, also
\* when they look up absent keys; the table changes only in an update call.
C16_TableReadOnlyInPlay ==
    [][/\ call'.op \in {"select_move", "best_action", "get_q"} => q' = q
       /\ q' # q => call'.op = "update"]_vars

\* select_move on a table that holds some of the looked-up keys and lacks
\* others.
C16_Witness ==
    /\ call.op = "select_move"
    /\ \E a \in Range(call.moves) :
          <<encode_state(board, current_mark), a>> \notin DOMAIN q
    /\ \E a \in Range(call.moves) :
          <<encode_state(board, current_mark), a>> \in DOMAIN q

\* The file name for a table of the given sizes trained for e episodes.
FilenameFor(bs, wl, e) ==
    "q_table_" \o ToString(bs) \o "_" \o ToString(wl) \o "_" \o ToString(e) \o ".pkl"

\* C15: a table trained by train_self_play(episodes) is saved under, and
\* loaded from, the file name derived from board_size, win_length and the
\* number of episodes it was trained for.
C15_FileNameFromEpisodes ==
    (call.op \in {"save", "load_if_exists"} /\ ~InvalidConfig /\ episodes >= 1) =>
        /\ call.filename = FilenameFor(board_size, win_length, episodes)
        /\ \A e2 \in (0..MaxEpisodes) \ {episodes} :
              call.filename # FilenameFor(board_size, win_length, e2)

\* C17: in training every chosen action is a legal move and fills exactly
\* one empty cell, an episode has at most board_size*board_size moves, and
\* train_self_play(episodes) returns, after exactly `episodes` episodes.
C17_TrainingTerminates ==
    /\ [][call'.op = "train_move" =>
              /\ call'.action \in Range(available_moves(board))
              /\ board' = [board EXCEPT ![call'.action + 1] = call'.mover]
              /\ Stones(board') = Stones(board) + 1
              /\ turn' = turn + 1]_vars
    /\ [][episode' # episode =>
              (episode' = episode + 1 /\ episode' <= episodes /\ turn' = 0)]_vars
    /\ [](turn = Stones(board) /\ turn <= board_size * board_size)
    /\ [](call.op = "return" => episode = episodes)
    /\ <>(call.op = "return")

\* train_self_play(2) has returned; its second episode filled the 2x2 board.
C17_Witness ==
    /\ call.op = "return"
    /\ episode = MaxEpisodes
    /\ board_size = 2
    /\ turn = 4

\* C18: with board_size >= 1 the `if not moves: break` exit is never taken;
\* an episode ends only in the win-or-draw branch, whose first update is the
\* one terminal update of the mover's (state, action) and whose second
\* update, if any, is for the pair the other mark moved with at the ply just
\* before, in the same episode.
C18_EpisodeEndsInTerminalBranch ==
    [][board_size >= 1 =>
          /\ call'.op # "no_moves"
          /\ (pc = "while" /\ pc' = "for") =>
                /\ call'.op = "train_move"
                /\ call'.win # None \/ call'.draw
                /\ Len(call'.updates) \in {1, 2}
                /\ call'.updates[1].done
                /\ call'.updates[1].state = encode_state(board, call'.mover)
                /\ call'.updates[1].action = call'.action
                /\ board'[call'.action + 1] = call'.mover
                /\ Len(call'.updates) = 1 <=> call.op = "episode"
                /\ Len(call'.updates) = 2 =>
                      /\ call.op = "train_move"
                      /\ call.mover = OtherMark(call'.mover)
                      /\ call'.updates[2].done
                      /\ call'.updates[2].state = call.state
                      /\ call'.updates[2].action = call.action
                      /\ call'.updates[2].state # call'.updates[1].state
                      /\ episode' = episode]_vars

\* An episode on a 2x2 board ended by a draw on a full board, with the
\* terminal update of the mover and of the other mark's preceding move.
C18_Witness ==
    /\ call.op = "train_move"
    /\ pc = "for"
    /\ board_size = 2
    /\ call.draw
    /\ call.win = None
    /\ Len(call.updates) = 2
    /\ call.updates[2].state \in {"o:ox..", "o:o.x.", "o:o..x", "o:xo..", "o:.ox.", "o:.o.x",
                                  "o:x.o.", "o:.xo.", "o:..ox", "o:x..o", "o:.x.o", "o:..xo"}

CountMark(b, m) == Cardinality({i \in 1..Len(b) : b[i] = m})

\* The board the stones of a step are placed on: the empty board in
\* start_new_game, the current board otherwise.
BaseBoard(op) ==
    IF op = "start_new_game" THEN [i \in 1..Len(board) |-> None] ELSE board

\* The cells of b that are empty on the base board and hold one of the
\* first j marks of `placed` on the board nb after the step.
CellsOf(b, nb, placed, j) ==
    {i \in 1..Len(b) : b[i] = None /\ \E k \in 1..j : nb[i] = placed[k]}

\* The base board with the first j stones of the step on it.
BoardAfter(b, nb, placed, j) ==
    [i \in 1..Len(b) |-> IF i \in CellsOf(b, nb, placed, j) THEN nb[i] ELSE b[i]]

\* A step puts exactly the stones of call.placed on empty cells of the base
\* board, one cell per mark, and changes no other cell.
StonesAsPlaced(b, nb, placed) ==
    /\ nb = BoardAfter(b, nb, placed, Len(placed))
    /\ \A j \in 0..Len(placed) : Cardinality(CellsOf(b, nb, placed, j)) = j

\* C19: while the interactive loop waits for a click and the game is not
\* over it is the human's turn by the parity rule; stones are placed in
\* strict alternation starting with "o"; the number of "o" stones minus the
\* number of "x" stones is always 0 or 1.
C19_HumanTurnAndAlternation ==
    /\ []((pc = "waiting" /\ ~game_over) =>
              /\ is_human_turn
              /\ (turn % 2 = 0) <=> human_first)
    /\ [](CountMark(board, "o") - CountMark(board, "x") \in {0, 1})
    /\ [](turn = Stones(board))
    /\ [][/\ StonesAsPlaced(BaseBoard(call'.op), board', call'.placed)
          /\ \A j \in 1..Len(call'.placed) :
                call'.placed[j] =
                    IF (Stones(BaseBoard(call'.op)) + j - 1) % 2 = 0 THEN "o" ELSE "x"]_vars

\* The CPU moved first and answered the human's move: "o", "x", "o".
C19_Witness ==
    /\ pc = "waiting"
    /\ ~human_first
    /\ turn = 3
    /\ call.op = "on_click"
    /\ Len(call.placed) = 2
    /\ call.placed = <<"x", "o">>

\* Whether board b has a winner or is a draw.
Decided(b) ==
    \/ winner(b, board_size, win_length) # None
    \/ (\A i \in 1..Len(b) : b[i] # None)

\* C20: in the interactive loop a position with a winner or a draw has
\* game_over set whenever input can be handled, no stone is placed on a
\* board that has a winner or is full, and game_over goes from true to false
\* only in start_new_game, whose reset empties the board and sets turn to 0
\* before the CPU's first stone, if any.
C20_GameOverBeforeInput ==
    /\ [](Decided(board) => (game_over /\ pc \in {"dialog", "destroyed"}))
    /\ [][/\ StonesAsPlaced(BaseBoard(call'.op), board', call'.placed)
          /\ \A j \in 1..Len(call'.placed) :
                ~Decided(BoardAfter(BaseBoard(call'.op), board', call'.placed, j - 1))]_vars
    /\ [][(game_over /\ ~game_over') =>
             /\ call'.op = "start_new_game"
             /\ Len(call'.placed) <= 1
             /\ Stones(board') = Len(call'.placed)
             /\ turn' = Len(call'.placed)]_vars

\* A game on the 3x3 board ended by a win, and the new game after it was
\* started with the CPU's first stone.
C20_Witness ==
    /\ call.op = "start_new_game"
    /\ board_size = 3
    /\ pc = "waiting"
    /\ ~game_over
    /\ turn = 1

====
